---- MODULE Spec2Model ----
(***************************************************************************)
(* A model of bx's aligned allocation layer (include/bx/allocator.h) and   *)
(* of its counting semaphore (include/bx/sem.h).                           *)
(*                                                                         *)
(* Memory is a flat array of bytes.  A byte is a number 0..127 or Junk     *)
(* (never written: its value is indeterminate).  Address 0 is NULL.        *)
(***************************************************************************)
EXTENDS Integers, Sequences, FiniteSets, TLC

\* ------------------------------------------------------------------ bounds
\* Size of the modelled window of the address space.
MemSize == 14
\* Largest size a caller requests.
MaxSize == 2
\* Alignments are 2^0 .. 2^MaxAlignLog.
MaxAlignLog == 2
\* Largest number of allocations the caller holds at once.
MaxLive == 2
\* Largest number of calls into the allocation layer.
MaxOps == 3
\* The address computation alone is explored up to alignment 2^ProbeAlignLog
\* and raw address ProbeMaxRaw.
ProbeAlignLog == 12
ProbeMaxRaw == 40
\* Threads that use the semaphore, and calls they make in all.
NThreads == 3
MaxCalls == 3
\* Largest argument of post.
MaxPost == 2
\* The timeout, in milliseconds, of the timed waits.
TimedMsecs == 50
\* Largest number of times the clock is seen to advance.
MaxTicks == 1

\* ------------------------------------------------------- program constants
\* sizeof(uint32_t): the header in front of every aligned pointer.
HeaderSize == 4
NULL == 0
\* The largest value of int32_t m_count; also LONG_MAX, the maximum count the
\* Windows semaphore is created with.
Int32Max == 2147483647

VARIABLES
    mem,      \* the bytes of the address window
    blocks,   \* the base allocator's live blocks: records [base, size]
    ptrs,     \* the aligned pointers the caller holds: [p, size, align, raw]
    last,     \* what the last call into the layer did
    ub,       \* the layer handed the base allocator a pointer it does not own
    nops,     \* calls made so far
    probe,    \* one evaluation of the address computation
    backend,  \* the semaphore implementation the build selected
    count,    \* m_count, or the value of the native semaphore
    mutex,    \* m_mutex: 0, or the thread that holds it
    th,       \* per thread: where it is in post or wait, and what its call did
    now,      \* CLOCK_REALTIME, a timespec
    nticks,   \* times the clock advanced
    posted,   \* sum of _count over the post calls that returned (those of
              \* Int32Max are counted per thread, in nbig)
    taken,    \* number of wait calls that returned true
    handoff   \* the calls so far are a blocked wait(-1), then a post(1)

allocVars == <<mem, blocks, ptrs, last, ub, nops>>
semVars == <<backend, count, mutex, th, now, nticks, posted, taken, handoff>>
vars == <<mem, blocks, ptrs, last, ub, nops, probe,
          backend, count, mutex, th, now, nticks, posted, taken, handoff>>

\* ------------------------------------------------------------------ helpers
Junk == 0 - 1
Wild == 0 - 1
NoFwd == 0 - 2

Addr == 0 .. (MemSize - 1)

RECURSIVE Pow2(_)
Pow2(k) == IF k = 0 THEN 1 ELSE 2 * Pow2(k - 1)

Aligns == { Pow2(k) : k \in 0 .. MaxAlignLog }
Sizes == 0 .. MaxSize

Min(a, b) == IF a < b THEN a ELSE b

\* The byte pattern a caller writes into its allocation.
Pat(i) == 100 + i

\* x & ~m on non-negative integers.
RECURSIVE BitAndNot(_, _)
BitAndNot(x, m) ==
    IF x = 0 THEN 0
    ELSE (IF m % 2 = 1 THEN 0 ELSE x % 2) + 2 * BitAndNot(x \div 2, m \div 2)

\* #define BX_ALIGN_MASK(_value, _mask) ( ( (_value)+(_mask) ) & ( (~0)&(~(_mask) ) ) )
BX_ALIGN_MASK(value, mask) == BitAndNot(value + mask, mask)

alignPtrMaskIsAlign(ptr, extra, align) ==
    LET unaligned == ptr + extra
        mask == align
    IN  BX_ALIGN_MASK(unaligned, mask)

\* allocator.h:45  alignPtr(_ptr, _extra, _align)
alignPtr(ptr, extra, align) ==
    LET unaligned == ptr + extra
        mask == align - 1
    IN  BX_ALIGN_MASK(unaligned, mask)

\* Little-endian store and load of a uint32_t.
WriteU32(m, a, v) ==
    [x \in DOMAIN m |->
        IF x = a THEN v % 256
        ELSE IF x = a + 1 THEN (v \div 256) % 256
        ELSE IF x = a + 2 THEN (v \div 65536) % 256
        ELSE IF x = a + 3 THEN (v \div 16777216) % 256
        ELSE m[x]]

ReadU32(m, a) ==
    IF \E i \in 0 .. 3 : m[a + i] = Junk THEN Wild
    ELSE m[a] + 256 * m[a + 1] + 65536 * m[a + 2] + 16777216 * m[a + 3]

\* ::memmove(dst, src, n): every byte is read before any is written.
MemMove(m, dst, src, n) ==
    [x \in DOMAIN m |->
        IF x >= dst /\ x < dst + n THEN m[src + (x - dst)] ELSE m[x]]

Overlap(lo1, n1, lo2, n2) == lo1 < lo2 + n2 /\ lo2 < lo1 + n1

\* The base allocator may place a block of `total` bytes at raw when the block
\* is free of every other live block.  The window leaves room behind raw for
\* the header, the alignment slack and the caller's bytes.
CanPlace(raw, total, size, align, others) ==
    /\ raw >= 1
    /\ raw + (HeaderSize - 1) + align + size <= MemSize
    /\ raw + total <= MemSize
    /\ \A b \in others : ~Overlap(raw, total, b.base, b.size)

\* base: the request made of the base allocator; readHdr, wroteHdr: the call
\* loaded, stored a header; trap: the access faulted; oldSize, mvN, mvSrc,
\* mvDst: the caller's old size and the arguments of ::memmove.
NoLast ==
    [op |-> "none", p |-> NULL, size |-> 0, align |-> 1, raw |-> NULL, total |-> 0,
     fwd |-> NoFwd, fwdLive |-> TRUE, ret |-> NULL, old |-> <<>>, moved |-> FALSE,
     base |-> "none", readHdr |-> FALSE, wroteHdr |-> FALSE, trap |-> FALSE,
     oldSize |-> 0, mvN |-> 0, mvSrc |-> NULL, mvDst |-> NULL]

\* -------------------------------------------------------------- the layer
\* allocator.h:121  alignedAlloc(_allocator, _size, _align); raw is the
\* address the base allocator returns for the request of total bytes.
AlignedAlloc(size, align, raw) ==
    LET total == size + align
        aligned == alignPtr(raw, HeaderSize, align)
        header == aligned - HeaderSize
    IN  /\ ~ub
        /\ nops < MaxOps
        /\ Cardinality(ptrs) < MaxLive
        /\ CanPlace(raw, total, size, align, blocks)
        /\ blocks' = blocks \cup {[base |-> raw, size |-> total]}
        /\ mem' = WriteU32(mem, header, aligned - raw)
        /\ ptrs' = ptrs \cup {[p |-> aligned, size |-> size, align |-> align,
                              raw |-> raw]}
        /\ last' = [NoLast EXCEPT !.op = "alloc", !.size = size, !.align = align,
                                  !.raw = raw, !.total = total, !.ret = aligned,
                                  !.base = "alloc", !.wroteHdr = TRUE]
        /\ nops' = nops + 1
        /\ ub' = ub

\* The caller fills the size bytes it asked for.
WritePattern(h) ==
    /\ ~ub
    /\ h \in ptrs
    /\ \E i \in 0 .. (h.size - 1) : mem[h.p + i] # Pat(i)
    /\ mem' = [x \in DOMAIN mem |->
                 IF x >= h.p /\ x < h.p + h.size THEN Pat(x - h.p) ELSE mem[x]]
    /\ last' = [NoLast EXCEPT !.op = "write", !.p = h.p, !.size = h.size,
                              !.align = h.align]
    /\ UNCHANGED <<blocks, ptrs, ub, nops>>

\* allocator.h:131  alignedFree(_allocator, _ptr)
AlignedFree(h) ==
    LET aligned == h.p
        offset == ReadU32(mem, aligned - HeaderSize)
        ptr == IF offset = Wild THEN Wild ELSE aligned - offset
        live == { b \in blocks : b.base = ptr }
    IN  /\ ~ub
        /\ nops < MaxOps
        /\ h \in ptrs
        /\ ptrs' = ptrs \ {h}
        /\ blocks' = blocks \ live
        /\ ub' = (live = {})
        /\ last' = [NoLast EXCEPT !.op = "free", !.p = aligned, !.size = h.size,
                                  !.align = h.align, !.fwd = ptr,
                                  !.fwdLive = (live # {}),
                                  !.base = "free", !.readHdr = TRUE]
        /\ nops' = nops + 1
        /\ mem' = mem

\* allocator.h:139  alignedRealloc(_allocator, _ptr, _size, _align) for a
\* pointer the caller holds; newRaw is the address the base realloc returns.
AlignedRealloc(h, size, newRaw) ==
    LET aligned == h.p
        align == h.align
        offset == ReadU32(mem, aligned - HeaderSize)
        ptr == IF offset = Wild THEN Wild ELSE aligned - offset
        live == { b \in blocks : b.base = ptr }
        total == size + align
        kept == Min(h.size, size)
        old == [i \in 1 .. kept |-> mem[aligned + i - 1]]
    IN  /\ ~ub
        /\ nops < MaxOps
        /\ h \in ptrs
        /\ nops' = nops + 1
        /\ IF live = {}
           THEN \* the base realloc is handed a pointer it never returned
                /\ newRaw = NULL
                /\ ub' = TRUE
                /\ last' = [NoLast EXCEPT !.op = "realloc", !.p = aligned,
                              !.size = size, !.align = align, !.total = total,
                              !.fwd = ptr, !.fwdLive = FALSE, !.old = old,
                              !.base = "realloc", !.readHdr = TRUE,
                              !.oldSize = h.size]
                /\ UNCHANGED <<mem, blocks, ptrs>>
           ELSE LET b == CHOOSE x \in live : TRUE
                    mem1 == MemMove(mem, newRaw, ptr, Min(b.size, total))
                    newAligned == alignPtr(newRaw, HeaderSize, align)
                    mem2 == MemMove(mem1, newAligned, newRaw + offset, size)
                    mem3 == WriteU32(mem2, newAligned - HeaderSize, newAligned - newRaw)
                IN  /\ CanPlace(newRaw, total, size, align, blocks \ {b})
                    /\ blocks' = (blocks \ {b}) \cup {[base |-> newRaw, size |-> total]}
                    /\ ub' = ub
                    /\ IF newAligned = aligned
                       THEN /\ mem' = mem1
                            /\ ptrs' = (ptrs \ {h}) \cup
                                         {[p |-> aligned, size |-> size, align |-> align,
                                           raw |-> newRaw]}
                            /\ last' = [NoLast EXCEPT !.op = "realloc", !.p = aligned,
                                  !.size = size, !.align = align, !.raw = newRaw,
                                  !.total = total, !.fwd = ptr, !.ret = aligned,
                                  !.old = old, !.base = "realloc",
                                  !.readHdr = TRUE, !.oldSize = h.size]
                       ELSE /\ mem' = mem3
                            /\ ptrs' = (ptrs \ {h}) \cup
                                         {[p |-> newAligned, size |-> size, align |-> align,
                                           raw |-> newRaw]}
                            /\ last' = [NoLast EXCEPT !.op = "realloc", !.p = aligned,
                                  !.size = size, !.align = align, !.raw = newRaw,
                                  !.total = total, !.fwd = ptr, !.ret = newAligned,
                                  !.old = old, !.moved = TRUE, !.base = "realloc",
                                  !.readHdr = TRUE, !.wroteHdr = TRUE,
                                  !.oldSize = h.size, !.mvN = size,
                                  !.mvSrc = newRaw + offset, !.mvDst = newAligned]

AlignedReallocNullAsked(size, align, raw) ==
    LET total == size
        aligned == alignPtr(raw, HeaderSize, align)
        header == aligned - HeaderSize
    IN  /\ ~ub
        /\ nops < MaxOps
        /\ Cardinality(ptrs) < MaxLive
        /\ CanPlace(raw, total + align, size, align, blocks)
        /\ blocks' = blocks \cup {[base |-> raw, size |-> total]}
        /\ mem' = WriteU32(mem, header, aligned - raw)
        /\ ptrs' = ptrs \cup {[p |-> aligned, size |-> size, align |-> align,
                              raw |-> raw]}
        /\ last' = [NoLast EXCEPT !.op = "realloc_null", !.size = size,
                                  !.align = align, !.raw = raw, !.total = total,
                                  !.ret = aligned, !.base = "realloc",
                                  !.wroteHdr = TRUE]
        /\ nops' = nops + 1
        /\ ub' = ub

\* allocator.h:141-144  alignedRealloc(_allocator, NULL, _size, _align):
\*   return alignedAlloc(_allocator, _size, _align, _file, _line);
AlignedReallocNull(size, align, raw) ==
    LET total == size + align
        aligned == alignPtr(raw, HeaderSize, align)
        header == aligned - HeaderSize
    IN  /\ ~ub
        /\ nops < MaxOps
        /\ Cardinality(ptrs) < MaxLive
        /\ CanPlace(raw, total, size, align, blocks)
        /\ blocks' = blocks \cup {[base |-> raw, size |-> total]}
        /\ mem' = WriteU32(mem, header, aligned - raw)
        /\ ptrs' = ptrs \cup {[p |-> aligned, size |-> size, align |-> align,
                              raw |-> raw]}
        /\ last' = [NoLast EXCEPT !.op = "realloc_null", !.size = size,
                                  !.align = align, !.raw = raw, !.total = total,
                                  !.ret = aligned, !.base = "alloc",
                                  !.wroteHdr = TRUE]
        /\ nops' = nops + 1
        /\ ub' = ub

\* allocator.h:131-137  alignedFree(_allocator, NULL).  There is no test for
\* NULL: the header is loaded from the four bytes below address 0.  The load
\* either faults, or yields some value and aligned - value goes to the base
\* allocator's free.
AlignedFreeNull(trap) ==
    /\ ~ub
    /\ nops < MaxOps
    /\ ub' = TRUE
    /\ last' = [NoLast EXCEPT !.op = "free_null", !.p = NULL, !.readHdr = TRUE,
                              !.trap = trap,
                              !.fwd = IF trap THEN NoFwd ELSE Wild,
                              !.fwdLive = trap,
                              !.base = IF trap THEN "none" ELSE "free"]
    /\ nops' = nops + 1
    /\ UNCHANGED <<mem, blocks, ptrs>>

\* allocator.h:121-129  alignedAlloc when the base allocator's alloc returns
\* NULL.  ptr is not tested: aligned is computed from address 0, the header is
\* stored below it, and aligned is returned.  The store either faults or lands
\* in the first bytes of the address space.
AlignedAllocFails(size, align, trap) ==
    LET total == size + align
        aligned == alignPtr(NULL, HeaderSize, align)
    IN  /\ ~ub
        /\ nops < MaxOps
        /\ ub' = TRUE
        /\ last' = [NoLast EXCEPT !.op = "alloc_fail", !.size = size,
                                  !.align = align, !.raw = NULL, !.total = total,
                                  !.base = "alloc", !.trap = trap,
                                  !.wroteHdr = ~trap,
                                  !.ret = IF trap THEN NoFwd ELSE aligned]
        /\ nops' = nops + 1
        /\ UNCHANGED <<mem, blocks, ptrs>>

\* allocator.h:146-163  alignedRealloc when the base allocator's realloc
\* returns NULL (the old block stays live).  ptr is not tested: newAligned is
\* computed from address 0 and, being different from aligned, _size bytes are
\* moved from address offset to newAligned and the header is stored below it.
AlignedReallocFails(h, size, trap) ==
    LET aligned == h.p
        align == h.align
        offset == ReadU32(mem, aligned - HeaderSize)
        ptr == IF offset = Wild THEN Wild ELSE aligned - offset
        live == { b \in blocks : b.base = ptr }
        total == size + align
        newAligned == alignPtr(NULL, HeaderSize, align)
    IN  /\ ~ub
        /\ nops < MaxOps
        /\ h \in ptrs
        /\ live # {}
        /\ newAligned # aligned
        /\ ub' = TRUE
        /\ last' = [NoLast EXCEPT !.op = "realloc_fail", !.p = aligned,
                                  !.size = size, !.align = align, !.raw = NULL,
                                  !.total = total, !.fwd = ptr,
                                  !.base = "realloc", !.readHdr = TRUE,
                                  !.oldSize = h.size, !.trap = trap,
                                  !.moved = ~trap, !.wroteHdr = ~trap,
                                  !.mvN = size, !.mvSrc = NULL + offset,
                                  !.mvDst = newAligned,
                                  !.ret = IF trap THEN NoFwd ELSE newAligned]
        /\ nops' = nops + 1
        /\ UNCHANGED <<mem, blocks, ptrs>>

\* ---------------------------------------------- the address computation alone
ProbeAligns == { Pow2(k) : k \in 0 .. ProbeAlignLog }

NoRet == 0 - 1

\* alignedAlloc's return value for the raw address the base allocator gave.
ProbeAlignedAlloc ==
    /\ probe.ret = NoRet
    /\ probe' = [probe EXCEPT !.ret = alignPtr(probe.raw, HeaderSize, probe.align)]
    /\ UNCHANGED allocVars

\* ================================================================ semaphore
\* The build picks one backend (sem.h:24-26, 122, 186):
\*   "cond"  BX_CONFIG_SEMAPHORE_PTHREAD, pthread_cond_timedwait available
\*   "sem"   sem_t, sem_timedwait available
\*   "win"   Windows / Xbox 360 semaphore object
Backends == {"cond", "sem", "win"}

\* The builds without a timed wait (sem.h:78, 154):
\*   "cond_nt"  BX_CONFIG_SEMAPHORE_PTHREAD on NaCl, OSX, iOS
\*   "sem_nt"   sem_t on NaCl, OSX
NoTimedBackends == {"cond_nt", "sem_nt"}

\* The builds whose Semaphore is the mutex, the condition variable and m_count.
CondBackends == {"cond", "cond_nt"}

Threads == 1 .. NThreads

\* m_mutex is 0 when unlocked, else the thread that holds it.
Unlocked(m) == m = 0

\* Arguments of post and wait the callers use.  A post of Int32Max stands for
\* the large arguments a uint32_t allows.
PostCounts == 1 .. MaxPost
BigPost == Int32Max
Timeouts == {0 - 1, TimedMsecs}
NoTimedTimeouts == {0 - 1, 0 - 2, TimedMsecs}

\* C integer division and remainder truncate toward zero.
CDiv(a, b) == IF a >= 0 THEN a \div b ELSE 0 - ((0 - a) \div b)
CMod(a, b) == a - b * CDiv(a, b)

\* m_count is an int32_t and _count a uint32_t (at most Int32Max here): the sum is
\* reduced modulo 2^32 into the int32_t range.
AddInt32(c, n) ==
    IF c > 2147483647 - n
    THEN (c - 2147483647 - 1) + (n - 2147483647 - 1)
    ELSE c + n

\* timespec arithmetic --------------------------------------------------
NsecPerSec == 1000 * 1000 * 1000

TimeValid(ts) == ts.nsec >= 0 /\ ts.nsec < NsecPerSec

\* The clock has reached the absolute time ts.
TimePassed(clock, ts) ==
    \/ clock.sec > ts.sec
    \/ clock.sec = ts.sec /\ clock.nsec >= ts.nsec

\* The clock d nanoseconds later (d < 10^9).
TimeAdvance(clock, d) ==
    IF clock.nsec + d >= NsecPerSec
    THEN [sec |-> clock.sec + 1, nsec |-> clock.nsec + d - NsecPerSec]
    ELSE [sec |-> clock.sec, nsec |-> clock.nsec + d]

\* Microseconds from clock value a to clock value b.
ElapsedMicros(a, b) == (b.sec - a.sec) * 1000000 + (b.nsec - a.nsec) \div 1000

\* sem.h:87-90 and sem.h:170-173
\*   clock_gettime(CLOCK_REALTIME, &ts);
\*   ts.tv_sec += _msecs/1000;  ts.tv_nsec += (_msecs%1000)*1000;
Deadline(clock, msecs) ==
    [sec |-> clock.sec + CDiv(msecs, 1000),
     nsec |-> clock.nsec + CMod(msecs, 1000) * 1000]

NoTime == [sec |-> 0, nsec |-> 0]

IdleThread ==
    [pc |-> "idle", op |-> "none", arg |-> 0, ii |-> 0, result |-> "ok",
     ts |-> NoTime, ok |-> FALSE, ret |-> "none", start |-> NoTime,
     cnt0 |-> 0, blocked |-> FALSE, intr |-> FALSE, took |-> 0, seen |-> 0,
     early |-> FALSE, ncalls |-> 0, nbig |-> 0, clk |-> NoTime]

RECURSIVE SumOver(_, _)
SumOver(f, n) == IF n = 0 THEN 0 ELSE f[n] + SumOver(f, n - 1)

TotalCalls == SumOver([t \in Threads |-> th[t].ncalls], NThreads)

\* Threads are numbered in the order of their first call.
MayCall(t) ==
    /\ th[t].pc = "idle"
    /\ TotalCalls < MaxCalls
    /\ th[t].ncalls > 0 \/ \A u \in 1 .. (t - 1) : th[u].ncalls > 0

\* A thread blocked inside wait: on the condition variable, or on a native
\* semaphore that has nothing to take.
IsBlocked(t) ==
    \/ th[t].pc = "cw_blocked"
    \/ th[t].pc \in {"sw_wait", "sw_timed", "ww_wait"} /\ 0 >= count

\* The hand-off case: the only call so far is a wait with a negative timeout
\* that is blocked on count 0, and now another thread calls post(1).
HandoffStarts(t, n) ==
    /\ n = 1
    /\ count = 0
    /\ TotalCalls = 1
    /\ \E w \in Threads \ {t} :
          th[w].ncalls = 1 /\ th[w].op = "wait" /\ th[w].arg < 0 /\ IsBlocked(w)

\* -------------------------------------------------------- calls and returns
\* A thread calls post(_count).  Through the sem_t backend a post of BigPost
\* is that many calls of sem_post; it is not explored.
CallPost(t, n) ==
    /\ MayCall(t)
    /\ n = BigPost => backend # "sem"
    /\ th' = [th EXCEPT ![t] =
                [IdleThread EXCEPT
                   !.pc = (IF backend \in CondBackends THEN "post_lock"
                           ELSE IF backend = "win" THEN "wp_release" ELSE "sp_loop"),
                   !.op = "post", !.arg = n,
                   !.ncalls = th[t].ncalls + 1, !.nbig = th[t].nbig]]
    /\ handoff' = HandoffStarts(t, n)
    /\ UNCHANGED <<backend, count, mutex, now, nticks, posted, taken>>

\* A thread calls wait(_msecs).
CallWait(t, msecs) ==
    /\ MayCall(t)
    /\ th' = [th EXCEPT ![t] =
                [IdleThread EXCEPT
                   !.pc = (IF backend = "cond" THEN "wait_lock"
                           ELSE IF backend = "cond_nt" THEN "nt_lock"
                           ELSE IF backend = "sem_nt" THEN "nt_check"
                           ELSE IF backend = "win" THEN "ww_wait"
                           ELSE IF 0 > msecs THEN "sw_wait" ELSE "sw_gettime"),
                   !.op = "wait", !.arg = msecs, !.start = now, !.cnt0 = count,
                   !.blocked = (backend \notin CondBackends /\ count <= 0 /\ 0 > msecs)
                               \/ (backend = "win" /\ count <= 0),
                   !.ncalls = th[t].ncalls + 1, !.nbig = th[t].nbig]]
    /\ handoff' = FALSE
    /\ UNCHANGED <<backend, count, mutex, now, nticks, posted, taken>>

\* post returns.
PostReturns(t) ==
    [th[t] EXCEPT !.pc = "idle", !.ret = "void", !.ii = 0,
                  !.nbig = @ + (IF th[t].arg = BigPost THEN 1 ELSE 0)]

\* What a post that returns adds to the sum of the posts.
PostedBy(t) == IF th[t].arg = BigPost THEN 0 ELSE th[t].arg

\* wait returns ok.
\* early: it returns before _msecs milliseconds have passed since the call.
WaitReturns(t, ok) ==
    [th[t] EXCEPT !.pc = "idle", !.ok = ok,
                  !.ret = IF ok THEN "true" ELSE "false",
                  !.early = ElapsedMicros(th[t].start, now) < th[t].arg * 1000,
                  !.start = NoTime, !.ts = NoTime, !.clk = NoTime]

\* The same, for a call that takes the semaphore in the step that returns.
WaitTakes(t) == [WaitReturns(t, TRUE) EXCEPT !.took = 1, !.seen = count]

\* --------------------------------------- condition-variable backend: post
\* sem.h:57  pthread_mutex_lock(&m_mutex)
PostLock(t) ==
    /\ th[t].pc = "post_lock"
    /\ Unlocked(mutex)
    /\ mutex' = t
    /\ th' = [th EXCEPT ![t].pc = "post_signal", ![t].ii = 0]
    /\ UNCHANGED <<backend, count, now, nticks, posted, taken, handoff>>

\* sem.h:60-64  one pthread_cond_signal: it unblocks a thread blocked on the
\* condition variable, if there is one.  A waiter whose absolute time has
\* passed may consume the signal and still return ETIMEDOUT.  With nobody
\* blocked (nobody can block while this thread holds the mutex) the remaining
\* signals of the loop do nothing, and are one step.
PostSignal(t) ==
    /\ th[t].pc = "post_signal"
    /\ th[t].ii < th[t].arg
    /\ LET waiters == { w \in Threads : th[w].pc = "cw_blocked" }
       IN  IF waiters = {}
           THEN th' = [th EXCEPT ![t].ii = th[t].arg]
           ELSE \E w \in waiters :
                \E r \in (IF backend = "cond" /\ TimePassed(now, th[w].ts)
                          THEN {"ok", "ETIMEDOUT"} ELSE {"ok"}) :
                   th' = [th EXCEPT ![t].ii = @ + 1,
                                    ![w].pc = "cw_wake", ![w].result = r]
    /\ UNCHANGED <<backend, count, mutex, now, nticks, posted, taken, handoff>>

\* sem.h:66  m_count += _count
PostAdd(t) ==
    /\ th[t].pc = "post_signal"
    /\ th[t].ii = th[t].arg
    /\ count' = AddInt32(count, th[t].arg)
    /\ th' = [th EXCEPT ![t].pc = "post_unlock", ![t].cnt0 = count]
    /\ UNCHANGED <<backend, mutex, now, nticks, posted, taken, handoff>>

\* sem.h:68  pthread_mutex_unlock(&m_mutex); post returns
PostUnlock(t) ==
    /\ th[t].pc = "post_unlock"
    /\ mutex' = 0
    /\ th' = [th EXCEPT ![t] = PostReturns(t)]
    /\ posted' = posted + PostedBy(t)
    /\ UNCHANGED <<backend, count, now, nticks, taken, handoff>>

\* --------------------------------------- condition-variable backend: wait
\* sem.h:76, 87-90  pthread_mutex_lock, then the absolute deadline
WaitLock(t) ==
    /\ th[t].pc = "wait_lock"
    /\ Unlocked(mutex)
    /\ mutex' = t
    /\ th' = [th EXCEPT ![t].pc = "wait_loop", ![t].result = "ok",
                        ![t].ts = Deadline(now, th[t].arg), ![t].clk = now]
    /\ UNCHANGED <<backend, count, now, nticks, posted, taken, handoff>>

\* sem.h:92-96  the loop condition holds: pthread_cond_timedwait.  A timespec
\* out of range is refused with EINVAL; otherwise the mutex is released and
\* the thread blocks on the condition variable.
CondTimedWait(t) ==
    /\ th[t].pc = "wait_loop"
    /\ th[t].result = "ok"
    /\ 0 >= count
    /\ IF TimeValid(th[t].ts)
       THEN /\ mutex' = 0
            /\ th' = [th EXCEPT ![t].pc = "cw_blocked", ![t].blocked = TRUE]
       ELSE /\ mutex' = mutex
            /\ th' = [th EXCEPT ![t].result = "EINVAL"]
    /\ UNCHANGED <<backend, count, now, nticks, posted, taken, handoff>>

\* pthread_cond_timedwait: the absolute time has passed.
CondTimeout(t) ==
    /\ th[t].pc = "cw_blocked"
    /\ TimePassed(now, th[t].ts)
    /\ th' = [th EXCEPT ![t].pc = "cw_wake", ![t].result = "ETIMEDOUT"]
    /\ UNCHANGED <<backend, count, mutex, now, nticks, posted, taken, handoff>>

\* pthread_cond_timedwait: a spurious wake-up.
CondSpurious(t) ==
    /\ th[t].pc = "cw_blocked"
    /\ th' = [th EXCEPT ![t].pc = "cw_wake", ![t].result = "ok"]
    /\ UNCHANGED <<backend, count, mutex, now, nticks, posted, taken, handoff>>

\* pthread_cond_timedwait returns with the mutex locked again.
CondReacquire(t) ==
    /\ th[t].pc = "cw_wake"
    /\ Unlocked(mutex)
    /\ mutex' = t
    /\ th' = [th EXCEPT ![t].pc = "wait_loop"]
    /\ UNCHANGED <<backend, count, now, nticks, posted, taken, handoff>>

WaitExitAlwaysTakes(t) ==
    /\ th[t].pc = "wait_loop"
    /\ ~(th[t].result = "ok" /\ 0 >= count)
    /\ count' = count - 1
    /\ th' = [th EXCEPT ![t].pc = "wait_unlock", ![t].ok = (th[t].result = "ok"),
                        ![t].took = count - count', ![t].seen = count]
    /\ UNCHANGED <<backend, mutex, now, nticks, posted, taken, handoff>>

\* sem.h:98-103  the loop is left: ok = 0 == result; if (ok) --m_count
WaitExit(t) ==
    /\ th[t].pc = "wait_loop"
    /\ ~(th[t].result = "ok" /\ 0 >= count)
    /\ LET ok == th[t].result = "ok"
       IN  /\ count' = IF ok THEN count - 1 ELSE count
           /\ th' = [th EXCEPT ![t].pc = "wait_unlock", ![t].ok = ok,
                               ![t].took = count - count', ![t].seen = count]
    /\ UNCHANGED <<backend, mutex, now, nticks, posted, taken, handoff>>

\* sem.h:105-110  pthread_mutex_unlock; return ok
WaitUnlock(t) ==
    /\ th[t].pc = "wait_unlock"
    /\ mutex' = 0
    /\ th' = [th EXCEPT ![t] = WaitReturns(t, th[t].ok)]
    /\ taken' = taken + (IF th[t].ok THEN 1 ELSE 0)
    /\ UNCHANGED <<backend, count, now, nticks, posted, handoff>>

\* ------------------------------------------------------------ sem_t backend
\* sem.h:144-148  one sem_post
SemPost(t) ==
    /\ th[t].pc = "sp_loop"
    /\ th[t].ii < th[t].arg
    /\ count' = count + 1
    /\ th' = [th EXCEPT ![t].ii = @ + 1]
    /\ UNCHANGED <<backend, mutex, now, nticks, posted, taken, handoff>>

\* sem.h:144, 150  the loop ends; post returns
SemPostDone(t) ==
    /\ th[t].pc = "sp_loop"
    /\ th[t].ii = th[t].arg
    /\ th' = [th EXCEPT ![t] = PostReturns(t)]
    /\ posted' = posted + th[t].arg
    /\ UNCHANGED <<backend, count, mutex, now, nticks, taken, handoff>>

\* sem.h:158-167  sem_wait takes the semaphore; wait returns true
SemWait(t) ==
    /\ th[t].pc = "sw_wait"
    /\ count > 0
    /\ count' = count - 1
    /\ th' = [th EXCEPT ![t] = WaitTakes(t)]
    /\ taken' = taken + 1
    /\ UNCHANGED <<backend, mutex, now, nticks, posted, handoff>>

\* sem.h:161-165  sem_wait is interrupted by a signal handler: EINTR, retry
SemWaitEintr(t) ==
    /\ th[t].pc = "sw_wait"
    /\ 0 >= count
    /\ ~th[t].intr
    /\ th' = [th EXCEPT ![t].intr = TRUE]
    /\ UNCHANGED <<backend, count, mutex, now, nticks, posted, taken, handoff>>

\* sem.h:170-173  the absolute deadline
SemGetTime(t) ==
    /\ th[t].pc = "sw_gettime"
    /\ th' = [th EXCEPT ![t].pc = "sw_timed", ![t].ts = Deadline(now, th[t].arg),
                        ![t].clk = now, ![t].blocked = (0 >= count)]
    /\ UNCHANGED <<backend, count, mutex, now, nticks, posted, taken, handoff>>

\* sem.h:174  sem_timedwait takes the semaphore
SemTimedWait(t) ==
    /\ th[t].pc = "sw_timed"
    /\ count > 0
    /\ count' = count - 1
    /\ th' = [th EXCEPT ![t] = WaitTakes(t)]
    /\ taken' = taken + 1
    /\ UNCHANGED <<backend, mutex, now, nticks, posted, handoff>>

\* sem.h:174  sem_timedwait would block and fails: EINVAL for a timespec out
\* of range, ETIMEDOUT once the absolute time has passed
SemTimedFail(t) ==
    /\ th[t].pc = "sw_timed"
    /\ 0 >= count
    /\ ~TimeValid(th[t].ts) \/ TimePassed(now, th[t].ts)
    /\ th' = [th EXCEPT ![t] = [WaitReturns(t, FALSE) EXCEPT
                 !.result = IF TimeValid(th[t].ts) THEN "ETIMEDOUT" ELSE "EINVAL"]]
    /\ UNCHANGED <<backend, count, mutex, now, nticks, posted, taken, handoff>>

\* sem.h:174  sem_timedwait is interrupted by a signal handler: EINTR
SemTimedEintr(t) ==
    /\ th[t].pc = "sw_timed"
    /\ 0 >= count
    /\ TimeValid(th[t].ts)
    /\ th' = [th EXCEPT ![t] = [WaitReturns(t, FALSE) EXCEPT
                 !.result = "EINTR", !.intr = TRUE]]
    /\ UNCHANGED <<backend, count, mutex, now, nticks, posted, taken, handoff>>

\* ---------------------------------------------------------- Windows backend
\* sem.h:204  ReleaseSemaphore(m_handle, _count, NULL): when the count would
\* pass the maximum the call fails and leaves the count alone; its result is
\* not looked at.
WinRelease(t) ==
    /\ th[t].pc = "wp_release"
    /\ count' = IF count > Int32Max - th[t].arg THEN count ELSE count + th[t].arg
    /\ th' = [th EXCEPT ![t] = PostReturns(t)]
    /\ posted' = posted + PostedBy(t)
    /\ UNCHANGED <<backend, mutex, now, nticks, taken, handoff>>

\* sem.h:209-210  WaitForSingleObject takes the semaphore: WAIT_OBJECT_0
WinWait(t) ==
    /\ th[t].pc = "ww_wait"
    /\ count > 0
    /\ count' = count - 1
    /\ th' = [th EXCEPT ![t] = WaitTakes(t)]
    /\ taken' = taken + 1
    /\ UNCHANGED <<backend, mutex, now, nticks, posted, handoff>>

\* sem.h:209-210  WaitForSingleObject: the interval of _msecs milliseconds
\* (INFINITE for a negative _msecs) has elapsed: WAIT_TIMEOUT
WinTimeout(t) ==
    /\ th[t].pc = "ww_wait"
    /\ 0 >= count
    /\ ~(0 > th[t].arg)
    /\ ElapsedMicros(th[t].start, now) >= th[t].arg * 1000
    /\ th' = [th EXCEPT ![t] = [WaitReturns(t, FALSE) EXCEPT !.result = "ETIMEDOUT"]]
    /\ UNCHANGED <<backend, count, mutex, now, nticks, posted, taken, handoff>>

\* ------------------------------------------- the builds without a timed wait
\* BX_CHECK(_condition, ...) is a fatal assertion: the process stops where the
\* condition is false.
BX_CHECK(condition, pcNext) == IF condition THEN pcNext ELSE "fatal"

\* The process has stopped in a fatal assertion.
Aborted == \E t \in Threads : th[t].pc = "fatal"

\* sem.h:76, 79  pthread_mutex_lock; BX_CHECK(-1 == _msecs, ...)
NoTimedWaitLock(t) ==
    /\ th[t].pc = "nt_lock"
    /\ Unlocked(mutex)
    /\ mutex' = t
    /\ th' = [th EXCEPT ![t].pc = BX_CHECK(0 - 1 = th[t].arg, "wait_loop"),
                        ![t].result = "ok"]
    /\ UNCHANGED <<backend, count, now, nticks, posted, taken, handoff>>

\* sem.h:80-84  the loop condition holds: pthread_cond_wait releases the mutex
\* and blocks on the condition variable.
CondWait(t) ==
    /\ th[t].pc = "wait_loop"
    /\ th[t].result = "ok"
    /\ 0 >= count
    /\ mutex' = 0
    /\ th' = [th EXCEPT ![t].pc = "cw_blocked", ![t].blocked = TRUE]
    /\ UNCHANGED <<backend, count, now, nticks, posted, taken, handoff>>

\* sem.h:155  BX_CHECK(-1 == _msecs, ...)
NoTimedSemCheck(t) ==
    /\ th[t].pc = "nt_check"
    /\ th' = [th EXCEPT ![t].pc = BX_CHECK(0 - 1 = th[t].arg, "nt_wait"),
                        ![t].blocked = (0 >= count)]
    /\ UNCHANGED <<backend, count, mutex, now, nticks, posted, taken, handoff>>

\* sem.h:156  return 0 == sem_wait(&m_handle): the semaphore is taken
NoTimedSemWait(t) ==
    /\ th[t].pc = "nt_wait"
    /\ count > 0
    /\ count' = count - 1
    /\ th' = [th EXCEPT ![t] = WaitTakes(t)]
    /\ taken' = taken + 1
    /\ UNCHANGED <<backend, mutex, now, nticks, posted, handoff>>

\* sem.h:156  sem_wait is interrupted by a signal handler: EINTR, and the
\* wait returns false
NoTimedSemEintr(t) ==
    /\ th[t].pc = "nt_wait"
    /\ 0 >= count
    /\ th' = [th EXCEPT ![t] = [WaitReturns(t, FALSE) EXCEPT
                 !.result = "EINTR", !.intr = TRUE]]
    /\ UNCHANGED <<backend, count, mutex, now, nticks, posted, taken, handoff>>

\* ------------------------------------------------------------------ the clock
\* A tenth of a millisecond, and TimedMsecs milliseconds.
TickSteps == {100 * 1000, TimedMsecs * 1000 * 1000}

\* CLOCK_REALTIME advances.
Tick(d) ==
    /\ nticks < MaxTicks
    /\ now' = TimeAdvance(now, d)
    /\ nticks' = nticks + 1
    /\ UNCHANGED <<backend, count, mutex, th, posted, taken, handoff>>

\* ------------------------------------------------------------ specifications
AllocInit ==
    /\ mem = [a \in Addr |-> Junk]
    /\ blocks = {}
    /\ ptrs = {}
    /\ last = NoLast
    /\ ub = FALSE
    /\ nops = 0

ProbeIdle == [raw |-> NULL, size |-> 0, align |-> 1, ret |-> NoRet]

\* Clock readings the semaphore may start from.
StartClocks ==
    {[sec |-> 10, nsec |-> 500000], [sec |-> 10, nsec |-> 999960000]}

\* sem.h:30-41, 127-132, 191-195  Semaphore(): the count starts at 0.
SemInit ==
    /\ backend \in Backends
    /\ count = 0
    /\ mutex = 0
    /\ th = [t \in Threads |-> IdleThread]
    /\ now \in StartClocks
    /\ nticks = 0
    /\ posted = 0
    /\ taken = 0
    /\ handoff = FALSE

\* The semaphore, where only the allocation layer is explored.
SemUnused ==
    /\ backend = "cond"
    /\ count = 0
    /\ mutex = 0
    /\ th = << >>
    /\ now = NoTime
    /\ nticks = 0
    /\ posted = 0
    /\ taken = 0
    /\ handoff = FALSE

\* The allocation layer, where only the semaphore is explored.
AllocUnused ==
    /\ mem = << >>
    /\ blocks = {}
    /\ ptrs = {}
    /\ last = NoLast
    /\ ub = FALSE
    /\ nops = 0

Init ==
    /\ AllocInit
    /\ probe = ProbeIdle
    /\ SemUnused

Next ==
    \/ \E size \in Sizes, align \in Aligns, raw \in Addr :
          AlignedAlloc(size, align, raw) /\ UNCHANGED <<probe, semVars>>
    \/ \E h \in ptrs : WritePattern(h) /\ UNCHANGED <<probe, semVars>>
    \/ \E h \in ptrs : AlignedFree(h) /\ UNCHANGED <<probe, semVars>>
    \/ \E h \in ptrs, size \in Sizes, newRaw \in Addr :
          AlignedRealloc(h, size, newRaw) /\ UNCHANGED <<probe, semVars>>
    \/ \E size \in Sizes, align \in Aligns, raw \in Addr :
          AlignedReallocNull(size, align, raw) /\ UNCHANGED <<probe, semVars>>
    \/ \E trap \in BOOLEAN : AlignedFreeNull(trap) /\ UNCHANGED <<probe, semVars>>
    \/ \E size \in Sizes, align \in Aligns, trap \in BOOLEAN :
          AlignedAllocFails(size, align, trap) /\ UNCHANGED <<probe, semVars>>
    \/ \E h \in ptrs, size \in Sizes, trap \in BOOLEAN :
          AlignedReallocFails(h, size, trap) /\ UNCHANGED <<probe, semVars>>

Spec == Init /\ [][Next]_vars

AlignInit ==
    /\ AllocInit
    /\ probe \in [raw : 0 .. ProbeMaxRaw, size : Sizes, align : ProbeAligns, ret : {NoRet}]
    /\ SemUnused

AlignNext == ProbeAlignedAlloc /\ UNCHANGED semVars

SpecAlign == AlignInit /\ [][AlignNext]_vars

SemFrame == UNCHANGED <<allocVars, probe>>

SemNext ==
    \/ (\E t \in Threads, n \in PostCounts \cup {BigPost} : CallPost(t, n)) /\ SemFrame
    \/ (\E t \in Threads, msecs \in Timeouts : CallWait(t, msecs)) /\ SemFrame
    \/ (\E t \in Threads : PostLock(t)) /\ SemFrame
    \/ (\E t \in Threads : PostSignal(t)) /\ SemFrame
    \/ (\E t \in Threads : PostAdd(t)) /\ SemFrame
    \/ (\E t \in Threads : PostUnlock(t)) /\ SemFrame
    \/ (\E t \in Threads : WaitLock(t)) /\ SemFrame
    \/ (\E t \in Threads : CondTimedWait(t)) /\ SemFrame
    \/ (\E t \in Threads : CondTimeout(t)) /\ SemFrame
    \/ (\E t \in Threads : CondSpurious(t)) /\ SemFrame
    \/ (\E t \in Threads : CondReacquire(t)) /\ SemFrame
    \/ (\E t \in Threads : WaitExit(t)) /\ SemFrame
    \/ (\E t \in Threads : WaitUnlock(t)) /\ SemFrame
    \/ (\E t \in Threads : SemPost(t)) /\ SemFrame
    \/ (\E t \in Threads : SemPostDone(t)) /\ SemFrame
    \/ (\E t \in Threads : SemWait(t)) /\ SemFrame
    \/ (\E t \in Threads : SemWaitEintr(t)) /\ SemFrame
    \/ (\E t \in Threads : SemGetTime(t)) /\ SemFrame
    \/ (\E t \in Threads : SemTimedWait(t)) /\ SemFrame
    \/ (\E t \in Threads : SemTimedFail(t)) /\ SemFrame
    \/ (\E t \in Threads : SemTimedEintr(t)) /\ SemFrame
    \/ (\E t \in Threads : WinRelease(t)) /\ SemFrame
    \/ (\E t \in Threads : WinWait(t)) /\ SemFrame
    \/ (\E t \in Threads : WinTimeout(t)) /\ SemFrame
    \/ (\E d \in TickSteps : Tick(d)) /\ SemFrame

SemSpecInit ==
    /\ AllocUnused
    /\ probe = ProbeIdle
    /\ SemInit

SpecSem == SemSpecInit /\ [][SemNext]_vars

\* sem.h:30-41, 127-132  Semaphore() in a build without a timed wait.
NoTimedInit ==
    /\ AllocUnused
    /\ probe = ProbeIdle
    /\ backend \in NoTimedBackends
    /\ count = 0
    /\ mutex = 0
    /\ th = [t \in Threads |-> IdleThread]
    /\ now \in StartClocks
    /\ nticks = 0
    /\ posted = 0
    /\ taken = 0
    /\ handoff = FALSE

\* Nothing runs once the process has stopped.
NoTimedFrame == ~Aborted /\ SemFrame

NoTimedNext ==
    \/ (\E t \in Threads, n \in PostCounts : CallPost(t, n)) /\ NoTimedFrame
    \/ (\E t \in Threads, msecs \in NoTimedTimeouts : CallWait(t, msecs)) /\ NoTimedFrame
    \/ (\E t \in Threads : PostLock(t)) /\ NoTimedFrame
    \/ (\E t \in Threads : PostSignal(t)) /\ NoTimedFrame
    \/ (\E t \in Threads : PostAdd(t)) /\ NoTimedFrame
    \/ (\E t \in Threads : PostUnlock(t)) /\ NoTimedFrame
    \/ (\E t \in Threads : NoTimedWaitLock(t)) /\ NoTimedFrame
    \/ (\E t \in Threads : CondWait(t)) /\ NoTimedFrame
    \/ (\E t \in Threads : CondSpurious(t)) /\ NoTimedFrame
    \/ (\E t \in Threads : CondReacquire(t)) /\ NoTimedFrame
    \/ (\E t \in Threads : WaitExit(t)) /\ NoTimedFrame
    \/ (\E t \in Threads : WaitUnlock(t)) /\ NoTimedFrame
    \/ (\E t \in Threads : SemPost(t)) /\ NoTimedFrame
    \/ (\E t \in Threads : SemPostDone(t)) /\ NoTimedFrame
    \/ (\E t \in Threads : NoTimedSemCheck(t)) /\ NoTimedFrame
    \/ (\E t \in Threads : NoTimedSemWait(t)) /\ NoTimedFrame
    \/ (\E t \in Threads : NoTimedSemEintr(t)) /\ NoTimedFrame

SpecNoTimed == NoTimedInit /\ [][NoTimedNext]_vars

\* ------------------------------------------------------------------ claims
\* C1: for every size, every power-of-two alignment up to 4096 and every raw
\* address, the pointer alignedAlloc returns is a multiple of the alignment.
C1_AllocAligned ==
    probe.ret # NoRet => probe.ret % probe.align = 0

\* C1 happens: an allocation with alignment 4096 from a raw address that is
\* not itself aligned.
C1_Witness ==
    /\ probe.ret # NoRet
    /\ probe.align = 4096
    /\ probe.raw % 4096 # 0
    /\ probe.ret = 4096

\* C2: the size bytes behind the pointer alignedAlloc returns lie inside the
\* raw block [raw, raw + size + align) it asked the base allocator for.
C2_UsableBytesInBlock ==
    last.op = "alloc" =>
        /\ last.ret >= last.raw
        /\ last.ret + last.size <= last.raw + last.total

\* The bytes the caller had in front of the realloc are the pattern.
OldIsPattern == \A i \in 1 .. Len(last.old) : last.old[i] = Pat(i - 1)

\* C3: one alignedAlloc, the caller fills the block with a pattern, one
\* alignedRealloc with the same alignment: the pointer returned is aligned and
\* its first min(oldSize, newSize) bytes are the old bytes.
C3_ReallocPreserves ==
    (nops = 2 /\ last.op = "realloc" /\ Len(last.old) >= 1 /\ OldIsPattern) =>
        /\ ~ub
        /\ last.ret % last.align = 0
        /\ \A i \in 1 .. Len(last.old) : mem[last.ret + i - 1] = last.old[i]

\* C4: for a pointer the layer returned earlier, the pointer it forwards to
\* the base free or realloc is the start of a live raw block, and once the caller has freed every aligned
\* pointer the base allocator has no block left.
C4_ForwardsLiveRaw ==
    /\ (last.op \in {"free", "realloc"} /\ last.fwd # NoFwd) => last.fwdLive
    /\ ptrs = {} => blocks = {}

\* What a call in progress has already added to, or taken from, the count.
PendingAdd(t) ==
    IF th[t].pc = "post_unlock" THEN PostedBy(t)
    ELSE IF th[t].pc = "sp_loop" THEN th[t].ii ELSE 0

PendingTake(t) == IF th[t].pc = "wait_unlock" /\ th[t].ok THEN 1 ELSE 0

\* The posts of BigPost made so far.
BigPosts ==
    SumOver([t \in Threads |->
               th[t].nbig + (IF th[t].pc = "post_unlock" /\ th[t].arg = BigPost
                             THEN 1 ELSE 0)], NThreads)

\* C5: the count is never negative and equals what the posts added minus the
\* number of successful waits (a call counts from its atomic step on); a wait
\* succeeds only by one step that sees count > 0 and takes exactly 1.  (Two
\* posts of BigPost already add up to more than a count can hold.)
C5_CountAccounting ==
    /\ count >= 0
    /\ BigPosts <= 1
    /\ count - BigPosts * BigPost =
           posted + SumOver([t \in Threads |-> PendingAdd(t)], NThreads)
             - taken - SumOver([t \in Threads |-> PendingTake(t)], NThreads)
    /\ \A t \in Threads :
          /\ th[t].took \in {0, 1}
          /\ th[t].took = 1 => th[t].seen > 0
          /\ th[t].ret = "true" => th[t].took = 1

\* C6: a wait with a negative timeout never returns failure; it returns only
\* with success, after it saw count > 0.
C6_NegativeTimeoutWaitsForever ==
    \A t \in Threads :
        (th[t].op = "wait" /\ th[t].arg < 0 /\ th[t].pc = "idle") =>
            th[t].ret = "true" /\ th[t].seen > 0

\* C7: a wait that is not satisfied returns false, and a wait that returns
\* false has taken nothing from the count.
C7_FailedWaitLeavesCount ==
    \A t \in Threads :
        (th[t].op = "wait" /\ th[t].pc = "idle") =>
            /\ th[t].ret = "false" <=> th[t].took = 0
            /\ th[t].result # "ok" => th[t].ret = "false"

\* C7 happens: a timed wait ran into its deadline while another thread
\* posted, and returned false with the posted count still there.
C7_Witness ==
    \E t \in Threads :
        /\ th[t].op = "wait" /\ th[t].pc = "idle"
        /\ th[t].arg >= 0
        /\ th[t].result = "ETIMEDOUT"
        /\ th[t].ret = "false"
        /\ count = posted /\ posted > 0

\* C8: a thread blocked in wait(-1) on count 0 is handed the post(1) of
\* another thread: its wait returns success and the count is 0 again.
C8_Handoff ==
    (handoff /\ \A t \in Threads : th[t].pc = "idle") =>
        /\ \A w \in Threads : th[w].op = "wait" => th[w].ret = "true"
        /\ count = 0

FanPosts == { t \in Threads : th[t].op = "post" }
FanWaits == { t \in Threads : th[t].op = "wait" }

\* C9: K threads call post(1) once each and M <= K threads call wait(-1) once
\* each; when all calls have returned, M waits succeeded and count = K - M.
C9_FanOut ==
    ( /\ \A t \in Threads : th[t].ncalls <= 1 /\ th[t].pc = "idle"
      /\ \A t \in FanPosts : th[t].arg = 1
      /\ \A t \in FanWaits : th[t].arg < 0
      /\ Cardinality(FanWaits) >= 1
      /\ Cardinality(FanWaits) <= Cardinality(FanPosts) ) =>
        /\ \A t \in FanWaits : th[t].ret = "true"
        /\ count = Cardinality(FanPosts) - Cardinality(FanWaits)

\* No other thread has used the semaphore.
Alone(t) == \A u \in Threads \ {t} : th[u].ncalls = 0

\* C10: on a semaphore only one thread uses, a wait that finds count > 0
\* succeeds without blocking; and after post(n) and n waits, a wait(t) with
\* t >= 0 that times out returns no earlier than t milliseconds after the call.
C10_ImmediateConsumption ==
    \A t \in Threads :
        (Alone(t) /\ th[t].op = "wait" /\ th[t].pc = "idle") =>
            /\ th[t].cnt0 > 0 => th[t].ret = "true" /\ ~th[t].blocked
            /\ ( /\ posted >= 1 /\ taken = posted /\ th[t].ncalls = posted + 2
                 /\ th[t].arg >= 0 /\ th[t].ret = "false"
                 /\ th[t].result = "ETIMEDOUT" ) => ~th[t].early

\* C11: alignedRealloc with a null pointer does what alignedAlloc does: one
\* request to the base allocator's alloc, of size + align bytes, none to its
\* realloc; the header alignedAlloc writes; the pointer alignedAlloc returns.
C11_ReallocNullIsAlloc ==
    last.op = "realloc_null" =>
        /\ ~ub
        /\ last.base = "alloc"
        /\ last.total = last.size + last.align
        /\ [base |-> last.raw, size |-> last.size + last.align] \in blocks
        /\ last.ret = alignPtr(last.raw, HeaderSize, last.align)
        /\ ReadU32(mem, last.ret - HeaderSize) = last.ret - last.raw
        /\ [p |-> last.ret, size |-> last.size, align |-> last.align,
            raw |-> last.raw] \in ptrs

\* C11 happens: a null-pointer realloc of 2 bytes aligned to 4, next to a
\* block that is already live, from a raw address that needs padding.
C11_Witness ==
    /\ last.op = "realloc_null"
    /\ last.size = 2
    /\ last.align = 4
    /\ last.ret - last.raw > HeaderSize
    /\ Cardinality(blocks) = 2

\* C12: alignedFree of a null pointer loads no header, asks nothing of the
\* base allocator and changes nothing.
C12_FreeNullIsNoOp ==
    last.op = "free_null" =>
        /\ ~last.readHdr
        /\ ~last.trap
        /\ last.base = "none"
        /\ ~ub

\* C13: when the base allocator returns NULL, alignedAlloc and alignedRealloc
\* return NULL, store no header and touch no memory.
C13_BaseFailureGivesNull ==
    last.op \in {"alloc_fail", "realloc_fail"} =>
        /\ last.ret = NULL
        /\ ~last.wroteHdr
        /\ ~last.moved
        /\ ~last.trap
        /\ ~ub

\* C15: in a build without a timed wait, a wait with a timeout t >= 0 stops
\* in the fatal assertion and never goes on to wait or to return, and a wait
\* with a negative timeout never stops in the assertion.
C15_NoTimedWaitFailsLoudly ==
    \A t \in Threads :
        th[t].op = "wait" =>
            /\ th[t].arg >= 0 => th[t].pc \in {"nt_lock", "nt_check", "fatal"}
            /\ 0 > th[t].arg => th[t].pc # "fatal"

\* C16: after any calls of alignedAlloc and alignedRealloc, for every aligned
\* pointer P the caller holds, the 4 bytes below P hold P - raw, where raw is
\* the start of the live raw block behind P; 4 <= P - raw < align + 4; and the
\* header lies inside that block.
C16_HeaderInvariant ==
    \A h \in ptrs :
        /\ [base |-> h.raw, size |-> h.size + h.align] \in blocks
        /\ ReadU32(mem, h.p - HeaderSize) = h.p - h.raw
        /\ HeaderSize <= h.p - h.raw
        /\ h.p - h.raw < h.align + HeaderSize
        /\ h.p <= h.raw + h.size + h.align

\* C17: when alignedRealloc moves the data, it moves min(new size, old size)
\* bytes, and the source range at newRaw + offset and the destination range at
\* the new aligned address both lie inside [newRaw, newRaw + size + align).
C17_MoveInsideBlock ==
    (last.op = "realloc" /\ last.moved) =>
        /\ last.mvN = Min(last.size, last.oldSize)
        /\ last.mvN > 0 =>
              /\ last.mvSrc >= last.raw
              /\ last.mvSrc + last.mvN <= last.raw + last.total
              /\ last.mvDst >= last.raw
              /\ last.mvDst + last.mvN <= last.raw + last.total

\* C14: a wait whose blocking primitive is interrupted by a signal handler
\* (EINTR) retries; no wait, with or without a timeout, returns false because
\* of the interruption.
C14_InterruptedWaitRetries ==
    \A t \in Threads :
        (th[t].op = "wait" /\ th[t].pc = "idle" /\ th[t].ret = "false") =>
            th[t].result # "EINTR"

\* C18: for a wait with a timeout of t >= 0 milliseconds, the absolute time
\* handed to the timed primitive is a valid timespec (0 <= tv_nsec < 10^9) and
\* is the clock reading plus t milliseconds.
C18_DeadlineIsNowPlusT ==
    \A t \in Threads :
        (th[t].op = "wait" /\ th[t].arg >= 0 /\ th[t].clk # NoTime) =>
            /\ TimeValid(th[t].ts)
            /\ th[t].ts = TimeAdvance(th[t].clk, th[t].arg * 1000 * 1000)

\* C19, for the waits with a timeout: in the condition-variable backend a wait
\* does not return failure while count > 0.
C19_NoFailureWhileCountPositive ==
    backend = "cond" =>
        \A t \in Threads :
            ( /\ th[t].op = "wait" /\ th[t].arg >= 0
              /\ th[t].pc \in {"wait_unlock", "idle"}
              /\ th[t].result = "ETIMEDOUT" ) => 0 >= th[t].seen

\* C20: in the condition-variable backend, after m_count += _count the count
\* is the old count plus _count, and is not negative.
C20_PostAddsWithoutWrap ==
    backend = "cond" =>
        \A t \in Threads :
            th[t].pc = "post_unlock" =>
                /\ count >= 0
                /\ count - th[t].arg = th[t].cnt0

====
